---- MODULE Spec2Model ----
(***************************************************************************)
(* Field-visibility controller of the offers admin page                    *)
(* (staticfiles/admin/js/offers_dynamic.js).  The file holds two variants, *)
(* initOfferTypeFields and initOfferTypeToggles; both are wired to         *)
(* DOMContentLoaded and to formset:added, in that order.                   *)
(*                                                                         *)
(* The page is a tree of elements: the document, one .inline-group G with  *)
(* the div.inline-related instances I1 and I2 rendered by the server, an   *)
(* instance N that the admin framework inserts into G, and (nested_admin)  *)
(* a nested .inline-group NG inside N holding the nested instance NJ.      *)
(* An instance owns at most one offer_type select and, for each of the     *)
(* five fields, at most one row.  I1 is rendered with either layout of     *)
(* Layouts and I1, I2 with or without a select; I2, N and NJ carry all     *)
(* five fields in .form-row rows.                                          *)
(*                                                                         *)
(* The site header (staticfiles/js/header.js) runs on the public pages,    *)
(* not on the admin page: Spec is the admin page with no header elements,  *)
(* HeaderSpec a public page with no inline forms.                          *)
(***************************************************************************)
EXTENDS Integers, Sequences, FiniteSets, TLC

VARIABLES present, hasSelect, rowKind, value, display, listeners, loaded,
          inserts,
          \* the site header (staticfiles/js/header.js), a script of other pages
          elements, header, headerListeners, headerLoaded

offerVars == <<present, hasSelect, rowKind, value, display, listeners, loaded,
               inserts>>
headerVars == <<elements, header, headerListeners, headerLoaded>>
vars == <<offerVars, headerVars>>

\* ------------------------------------------------------------ bounds
\* Number of formset:added events of one run.
MaxInserts == 2

\* ------------------------------------------------------------ the page
Instances == {"I1", "I2", "N", "NJ"}
Groups == {"G", "NG"}
Nodes == Instances \cup Groups
Document == "document"
Null == "null"

\* document order of the elements (preorder of the tree)
DocOrder == <<"G", "I1", "I2", "N", "NG", "NJ">>

Parent(n) ==
  CASE n = "G" -> Document
    [] n = "I1" -> "G"
    [] n = "I2" -> "G"
    [] n = "N" -> "G"
    [] n = "NG" -> "N"
    [] n = "NJ" -> "NG"
    [] OTHER -> Null

RECURSIVE Contains(_, _)
\* context.contains(n) for a proper descendant n
Contains(context, n) ==
  IF n = Document \/ n = Null THEN FALSE
  ELSE Parent(n) = context \/ Contains(context, Parent(n))

\* Contains, tabulated once
Below == [c \in Nodes \cup {Document, Null} |-> {n \in Nodes : Contains(c, n)}]

\* ------------------------------------------------------------ values
fields == <<"hours", "classes", "students", "instructors", "level">>
FieldSet == {fields[k] : k \in 1..Len(fields)}

Modes == {"lesson", "course", "experience", "rental"}
Values == Modes \cup {"", "LESSON"}

toLowerCase(s) == IF s = "LESSON" THEN "lesson" ELSE s

\* How the markup of one field looks inside an instance:
\*   formrow  <div class="form-row field-f"> ... <input id="..f">
\*   fieldcls <td class="field-f"> <input id="..f">   (no .form-row ancestor)
\*   fallback <div class="field-f"> without an element whose id ends in f
\*   none     the instance has no such field
Kinds == {"formrow", "fieldcls", "fallback", "none"}

Stacked == [f \in FieldSet |-> "formrow"]
Mixed ==
  [f \in FieldSet |->
    CASE f = "hours" -> "none"
      [] f = "classes" -> "formrow"
      [] f = "students" -> "fieldcls"
      [] f = "instructors" -> "fallback"
      [] f = "level" -> "formrow"]
Layouts == {Stacked, Mixed}

Shown == [f \in FieldSet |-> ""]

\* ------------------------------------------------------------ DOM queries
\* The live document tree the queries read: which elements are attached, which
\* instances own a select, the markup of their fields, the selects' values.
Dom == [present |-> present, hasSelect |-> hasSelect, rowKind |-> rowKind,
        value |-> value]

\* the instances of inline itself and below it, in document order
ElementsWithin(dom, inline) ==
  SelectSeq(DocOrder,
    LAMBDA n : n \in dom.present /\ n \in Instances
               /\ (n = inline \/ n \in Below[inline]))

\* inline.querySelector("select[id$='offer_type']")
querySelect(dom, inline) ==
  LET s == SelectSeq(ElementsWithin(dom, inline), LAMBDA n : dom.hasSelect[n])
  IN IF s = <<>> THEN Null ELSE Head(s)

\* inline.querySelector(`[id$=${f}]`): the instance owning the first match
queryId(dom, inline, f) ==
  LET s == SelectSeq(ElementsWithin(dom, inline),
             LAMBDA n : dom.rowKind[n][f] \in {"formrow", "fieldcls"})
  IN IF s = <<>> THEN Null ELSE Head(s)

\* inline.querySelector(`.field-${f}`)
queryFieldClass(dom, inline, f) ==
  LET s == SelectSeq(ElementsWithin(dom, inline),
             LAMBDA n : dom.rowKind[n][f] \in {"formrow", "fieldcls", "fallback"})
  IN IF s = <<>> THEN Null ELSE Head(s)

\* row lookup of toggleOfferFields: the instance whose row is found, or Null
locateOfferField(dom, inline, f) ==
  LET e == queryId(dom, inline, f)
  IN IF e # Null THEN e ELSE queryFieldClass(dom, inline, f)

\* row lookup of toggleFields
locateField(dom, inline, f) ==
  LET e == queryId(dom, inline, f)
  IN IF e # Null /\ dom.rowKind[e][f] = "formrow" THEN e ELSE Null

\* a scope that ignores its argument: every call scans the whole document
scopeOfDocument(context) == Document

\* (context || document)
scopeOf(context) == IF context = Null THEN Document ELSE context

\* (context || document).querySelectorAll("div.inline-related, .inline-group")
inlinesOfFields(dom, context) ==
  SelectSeq(DocOrder,
    LAMBDA n : n \in dom.present /\ n \in Below[scopeOf(context)])

\* (context || document).querySelectorAll("div.inline-related")
inlinesOfToggles(dom, context) ==
  SelectSeq(DocOrder,
    LAMBDA n : n \in dom.present /\ n \in Instances
               /\ n \in Below[scopeOf(context)])

\* ------------------------------------------------------------ evaluation
\* the switch of toggleOfferFields
offerFieldDisplay(val, f) ==
  CASE val = "lesson" ->
         IF f \in {"hours", "students", "instructors"} THEN "" ELSE "none"
    [] val = "course" -> IF f \in {"classes", "level"} THEN "" ELSE "none"
    [] val = "experience" -> IF f \in {"level"} THEN "" ELSE "none"
    [] val = "rental" -> "none"
    [] OTHER -> ""

\* an if/else chain whose last branch shows the row, as the switch's default
fieldDisplayShowDefault(val, f) ==
  IF val = "lesson"
    THEN IF f \in {"hours", "students", "instructors"} THEN "" ELSE "none"
  ELSE IF val = "course"
    THEN IF f \in {"classes", "level"} THEN "" ELSE "none"
  ELSE IF val = "experience"
    THEN IF f \in {"level"} THEN "" ELSE "none"
  ELSE ""

\* the if/else chain of toggleFields
fieldDisplay(val, f) ==
  IF val = "lesson"
    THEN IF f \in {"hours", "students", "instructors"} THEN "" ELSE "none"
  ELSE IF val = "course"
    THEN IF f \in {"classes", "level"} THEN "" ELSE "none"
  ELSE IF val = "experience"
    THEN IF f \in {"level"} THEN "" ELSE "none"
  ELSE "none"

RECURSIVE forEachOfferFieldHideOnly(_, _, _, _, _)
\* an evaluation that hides rows but never shows a hidden one again
forEachOfferFieldHideOnly(k, dom, inline, val, disp) ==
  IF k > Len(fields) THEN disp
  ELSE LET f == fields[k]
           field == locateOfferField(dom, inline, f)
           next == IF field = Null \/ offerFieldDisplay(val, f) = "" THEN disp
                   ELSE [disp EXCEPT ![field][f] = "none"]
       IN forEachOfferFieldHideOnly(k + 1, dom, inline, val, next)

RECURSIVE forEachOfferFieldFlip(_, _, _, _, _)
\* an evaluation that flips the row of every field outside the visible set
forEachOfferFieldFlip(k, dom, inline, val, disp) ==
  IF k > Len(fields) THEN disp
  ELSE LET f == fields[k]
           field == locateOfferField(dom, inline, f)
           next == IF field = Null THEN disp
                   ELSE IF offerFieldDisplay(val, f) = ""
                     THEN [disp EXCEPT ![field][f] = ""]
                   ELSE [disp EXCEPT ![field][f] =
                           IF @ = "none" THEN "" ELSE "none"]
       IN forEachOfferFieldFlip(k + 1, dom, inline, val, next)

RECURSIVE forEachOfferField(_, _, _, _, _)
forEachOfferField(k, dom, inline, val, disp) ==
  IF k > Len(fields) THEN disp
  ELSE LET f == fields[k]
           field == locateOfferField(dom, inline, f)
           next == IF field = Null THEN disp
                   ELSE [disp EXCEPT ![field][f] = offerFieldDisplay(val, f)]
       IN forEachOfferField(k + 1, dom, inline, val, next)

\* closure toggleOfferFields of (inline, select), run on the display state disp
toggleOfferFields(dom, inline, select, disp) ==
  forEachOfferField(1, dom, inline, toLowerCase(dom.value[select]), disp)

RECURSIVE forEachFieldUnscoped(_, _, _, _, _)
\* an evaluation whose row lookup is document.querySelector
forEachFieldUnscoped(k, dom, inline, val, disp) ==
  IF k > Len(fields) THEN disp
  ELSE LET f == fields[k]
           field == locateField(dom, Document, f)
           next == IF field = Null THEN disp
                   ELSE [disp EXCEPT ![field][f] = fieldDisplay(val, f)]
       IN forEachFieldUnscoped(k + 1, dom, inline, val, next)

RECURSIVE forEachField(_, _, _, _, _)
forEachField(k, dom, inline, val, disp) ==
  IF k > Len(fields) THEN disp
  ELSE LET f == fields[k]
           field == locateField(dom, inline, f)
           next == IF field = Null THEN disp
                   ELSE [disp EXCEPT ![field][f] = fieldDisplay(val, f)]
       IN forEachField(k + 1, dom, inline, val, next)

\* closure toggleFields of (inline, select)
toggleFields(dom, inline, select, disp) ==
  forEachField(1, dom, inline, dom.value[select], disp)

\* a registered change listener: which closure, over which inline and select
Listener(fn, inline, select) == [fn |-> fn, inline |-> inline, select |-> select]

runListener(dom, l, disp) ==
  IF l.fn = "toggleOfferFields"
    THEN toggleOfferFields(dom, l.inline, l.select, disp)
    ELSE toggleFields(dom, l.inline, l.select, disp)

RECURSIVE dispatchChange(_, _, _)
\* the listeners of one select run in registration order
dispatchChange(dom, ls, disp) ==
  IF ls = <<>> THEN disp
  ELSE dispatchChange(dom, Tail(ls), runListener(dom, Head(ls), disp))

\* ------------------------------------------------------------ initialisation
\* st = [listeners, display]: what initialisation reads and writes

\* select.addEventListener("change", toggleOfferFields); toggleOfferFields();
registerOfferFields(dom, inline, select, st) ==
  [listeners |-> [st.listeners EXCEPT ![select] =
                    Append(@, Listener("toggleOfferFields", inline, select))],
   display |-> toggleOfferFields(dom, inline, select, st.display)]

\* registration without the immediate evaluation
registerFieldsOnly(dom, inline, select, st) ==
  [listeners |-> [st.listeners EXCEPT ![select] =
                    Append(@, Listener("toggleFields", inline, select))],
   display |-> st.display]

\* select.addEventListener("change", toggleFields); toggleFields();
registerFields(dom, inline, select, st) ==
  [listeners |-> [st.listeners EXCEPT ![select] =
                    Append(@, Listener("toggleFields", inline, select))],
   display |-> toggleFields(dom, inline, select, st.display)]

RECURSIVE forEachInlineOfFields(_, _, _)
forEachInlineOfFields(dom, inlines, st) ==
  IF inlines = <<>> THEN st
  ELSE LET inline == Head(inlines)
           select == querySelect(dom, inline)
           next == IF select = Null THEN st
                   ELSE registerOfferFields(dom, inline, select, st)
       IN forEachInlineOfFields(dom, Tail(inlines), next)

initOfferTypeFields(dom, context, st) ==
  forEachInlineOfFields(dom, inlinesOfFields(dom, context), st)

RECURSIVE forEachInlineOfToggles(_, _, _)
forEachInlineOfToggles(dom, inlines, st) ==
  IF inlines = <<>> THEN st
  ELSE LET inline == Head(inlines)
           select == querySelect(dom, inline)
           next == IF select = Null THEN st
                   ELSE registerFields(dom, inline, select, st)
       IN forEachInlineOfToggles(dom, Tail(inlines), next)

initOfferTypeToggles(dom, context, st) ==
  forEachInlineOfToggles(dom, inlinesOfToggles(dom, context), st)

\* the formset:added event: dispatched on the inserted root, which is also carried
\* as detail.formset.$form by frameworks that wrap it
FormsetAddedEvent(root, wrapped) ==
  [target |-> root,
   detail |-> IF wrapped THEN <<[formset |-> <<[form |-> <<root>>]>>]>>
              ELSE <<>>]

\* event.detail && event.detail.formset ? event.detail.formset.$form.get(0)
\*                                      : event.target
newFormOf(event) ==
  IF event.detail # <<>> /\ event.detail[1].formset # <<>>
    THEN Head(event.detail[1].formset[1].form)
    ELSE event.target

\* ------------------------------------------------------------ site header
\* Which of the elements the script queries exist on the page.  nav is the
\* element .nav-item.nav-dropdown: absent, with its .nav-link and .dropdown, or
\* lacking one of the two.
NavKinds == {"none", "full", "nolink", "nodropdown"}
Elements ==
  [headerToggle : BOOLEAN, mobileDrawer : BOOLEAN, overlay : BOOLEAN,
   closeBtn : BOOLEAN, subToggle : BOOLEAN, subList : BOOLEAN, nav : NavKinds]
NoElements ==
  [headerToggle |-> FALSE, mobileDrawer |-> FALSE, overlay |-> FALSE,
   closeBtn |-> FALSE, subToggle |-> FALSE, subList |-> FALSE, nav |-> "none"]

\* what the user can click: the queried elements, another element inside the
\* dropdown item, and anything else on the page
Targets == {"headerToggle", "overlay", "closeBtn", "subToggle", "sportsLink",
            "navItem", "outside"}

exists(el, target) ==
  CASE target = "headerToggle" -> el.headerToggle
    [] target = "overlay" -> el.overlay
    [] target = "closeBtn" -> el.closeBtn
    [] target = "subToggle" -> el.subToggle
    [] target = "sportsLink" -> el.nav \in {"full", "nodropdown"}
    [] target = "navItem" -> el.nav # "none"
    [] OTHER -> TRUE

\* sportsNavItem.contains(e.target)
navContains(target) == target \in {"sportsLink", "navItem"}

\* The classes and attributes the handlers touch; raised: a handler has thrown.
HeaderStart(aria, hidden) ==
  [drawerOpen |-> FALSE, noScroll |-> FALSE, ariaExpanded |-> aria,
   subListHidden |-> hidden, dropdownOpen |-> FALSE, raised |-> FALSE]

\* String(b), the value setAttribute stores for a boolean
String(b) == IF b THEN "true" ELSE "false"

\* the listeners the DOMContentLoaded handler registers
registered(el) ==
  (IF el.headerToggle /\ el.mobileDrawer THEN {"headerToggle"} ELSE {})
    \cup (IF el.overlay THEN {"overlay"} ELSE {})
    \cup (IF el.closeBtn THEN {"closeBtn"} ELSE {})
    \cup (IF el.subToggle /\ el.subList THEN {"subToggle"} ELSE {})
    \cup (IF el.nav = "full" THEN {"sportsLink", "document"} ELSE {})

\* click listener of .header-toggle
openDrawer(h) == [h EXCEPT !.drawerOpen = TRUE, !.noScroll = TRUE]

\* a closeDrawer that leaves the body class in place
closeDrawerKeepScroll(el, h) ==
  IF ~el.mobileDrawer THEN [h EXCEPT !.raised = TRUE]
  ELSE [h EXCEPT !.drawerOpen = FALSE]

\* closeDrawer: mobileDrawer is null when the page has no .mobile-drawer, and
\* mobileDrawer.classList throws before the body class is touched
closeDrawer(el, h) ==
  IF ~el.mobileDrawer THEN [h EXCEPT !.raised = TRUE]
  ELSE [h EXCEPT !.drawerOpen = FALSE, !.noScroll = FALSE]

\* a submenu listener that hides the list when it expands
toggleSubmenuInverted(h) ==
  LET expanded == h.ariaExpanded = "true"
  IN [h EXCEPT !.ariaExpanded = String(~expanded),
               !.subListHidden = ~expanded]

\* click listener of .sub-toggle
toggleSubmenu(h) ==
  LET expanded == h.ariaExpanded = "true"
  IN [h EXCEPT !.ariaExpanded = String(~expanded),
               !.subListHidden = expanded]

\* click listener of the dropdown's .nav-link
toggleDropdown(h) == [h EXCEPT !.dropdownOpen = ~@]

\* a document listener that closes the dropdown on every click
documentClickAlways(target, h) == [h EXCEPT !.dropdownOpen = FALSE]

\* click listener of document
documentClick(target, h) ==
  IF ~navContains(target) THEN [h EXCEPT !.dropdownOpen = FALSE] ELSE h

\* the listener registered on the clicked element
targetClick(el, target, h) ==
  CASE target = "headerToggle" -> openDrawer(h)
    [] target = "overlay" -> closeDrawer(el, h)
    [] target = "closeBtn" -> closeDrawer(el, h)
    [] target = "subToggle" -> toggleSubmenu(h)
    [] target = "sportsLink" -> toggleDropdown(h)
    [] OTHER -> h

\* a click: the listener of the target runs, then the event bubbles to document
\* (a listener that throws does not stop the dispatch)
dispatchClick(el, ls, target, h) ==
  LET h1 == IF target \in ls THEN targetClick(el, target, h) ELSE h
  IN IF "document" \in ls THEN documentClick(target, h1) ELSE h1

\* ------------------------------------------------------------ the machine
TypeOK ==
  /\ present \subseteq Nodes
  /\ hasSelect \in [Instances -> BOOLEAN]
  /\ rowKind \in [Instances -> Layouts]
  /\ value \in [Instances -> Values]
  /\ display \in [Instances -> [FieldSet -> {"", "none"}]]
  /\ loaded \in BOOLEAN
  /\ inserts \in 0..MaxInserts
  /\ elements \in Elements
  /\ header \in [drawerOpen : BOOLEAN, noScroll : BOOLEAN,
                  ariaExpanded : {Null, "true", "false"},
                  subListHidden : BOOLEAN, dropdownOpen : BOOLEAN,
                  raised : BOOLEAN]
  /\ headerListeners \subseteq Targets \cup {"document"}
  /\ headerLoaded \in BOOLEAN

\* The server renders G with I1 and I2; rows carry no inline style.
Init ==
  /\ present = {"G", "I1", "I2"}
  /\ \E hs1 \in BOOLEAN, hs2 \in BOOLEAN, k1 \in Layouts, k2 \in {Stacked} :
     \E v1 \in IF hs1 THEN Values ELSE {""}, v2 \in IF hs2 THEN Values ELSE {""} :
       /\ hasSelect = [n \in Instances |->
                         (n = "I1" /\ hs1) \/ (n = "I2" /\ hs2)]
       /\ rowKind = [n \in Instances |->
                       IF n = "I1" THEN k1 ELSE IF n = "I2" THEN k2 ELSE Stacked]
       /\ value = [n \in Instances |->
                     IF n = "I1" THEN v1 ELSE IF n = "I2" THEN v2 ELSE ""]
  /\ display = [n \in Instances |-> Shown]
  /\ listeners = [n \in Instances |-> <<>>]
  /\ loaded = FALSE
  /\ inserts = 0
  /\ elements = NoElements
  /\ header = HeaderStart(Null, FALSE)
  /\ headerListeners = {}
  /\ headerLoaded = FALSE

\* Both DOMContentLoaded listeners of the file, in registration order.
DOMContentLoaded ==
  /\ ~loaded
  /\ LET st0 == [listeners |-> listeners, display |-> display]
         st1 == initOfferTypeFields(Dom, Document, st0)
         st2 == initOfferTypeToggles(Dom, Document, st1)
     IN /\ listeners' = st2.listeners
        /\ display' = st2.display
  /\ loaded' = TRUE
  /\ UNCHANGED <<present, hasSelect, rowKind, value, inserts>>
  /\ UNCHANGED headerVars

\* The user picks another option of the select of instance i: the change event
\* runs the listeners registered on that select.
Change(i, v) ==
  /\ loaded
  /\ i \in present /\ hasSelect[i]
  /\ v # value[i]
  /\ value' = [value EXCEPT ![i] = v]
  /\ display' = dispatchChange([Dom EXCEPT !.value = value'], listeners[i], display)
  /\ UNCHANGED <<present, hasSelect, rowKind, listeners, loaded, inserts>>
  /\ UNCHANGED headerVars

\* The framework attaches the inserted elements to the tree and dispatches
\* formset:added on the inserted root; both body listeners of the file run, in
\* registration order.  dom is the tree after the insertion.
dispatchFormsetAdded(dom, root, wrapped) ==
  LET newForm == newFormOf(FormsetAddedEvent(root, wrapped))
      st0 == [listeners |-> listeners, display |-> display]
      st1 == initOfferTypeFields(dom, newForm, st0)
  IN initOfferTypeToggles(dom, newForm, st1)

\* "Add another": a new instance N at the end of G.  N carries its own select
\* and rows, an (empty) nested group NG and, when withChild, a nested NJ.
FormsetAdded ==
  /\ loaded
  /\ inserts < MaxInserts
  /\ "N" \notin present
  /\ \E kindN \in {Stacked}, valN \in Values, withChild \in BOOLEAN,
        wrapped \in BOOLEAN :
     \E valJ \in IF withChild THEN Values ELSE {""} :
       /\ present' = present \cup {"N", "NG"}
                       \cup (IF withChild THEN {"NJ"} ELSE {})
       /\ hasSelect' = [hasSelect EXCEPT !["N"] = TRUE, !["NJ"] = withChild]
       /\ rowKind' = [rowKind EXCEPT !["N"] = kindN]
       /\ value' = [value EXCEPT !["N"] = valN, !["NJ"] = valJ]
       /\ LET dom == [present |-> present', hasSelect |-> hasSelect',
                      rowKind |-> rowKind', value |-> value']
              st == dispatchFormsetAdded(dom, "N", wrapped)
          IN /\ listeners' = st.listeners
             /\ display' = st.display
  /\ inserts' = inserts + 1
  /\ UNCHANGED loaded
  /\ UNCHANGED headerVars

\* "Add another" inside the nested group of N: a new nested instance NJ.
NestedFormsetAdded ==
  /\ loaded
  /\ inserts < MaxInserts
  /\ "NG" \in present /\ "NJ" \notin present
  /\ \E valJ \in Values, wrapped \in BOOLEAN :
       /\ present' = present \cup {"NJ"}
       /\ hasSelect' = [hasSelect EXCEPT !["NJ"] = TRUE]
       /\ value' = [value EXCEPT !["NJ"] = valJ]
       /\ LET dom == [present |-> present', hasSelect |-> hasSelect',
                      rowKind |-> rowKind, value |-> value']
              st == dispatchFormsetAdded(dom, "NJ", wrapped)
          IN /\ listeners' = st.listeners
             /\ display' = st.display
  /\ inserts' = inserts + 1
  /\ UNCHANGED <<loaded, rowKind>>
  /\ UNCHANGED headerVars

UserChange == \E i \in Instances, v \in Values : Change(i, v)

Next == DOMContentLoaded \/ UserChange \/ FormsetAdded \/ NestedFormsetAdded

Spec == Init /\ [][Next]_vars

\* A public page: no inline forms; any combination of the header elements, the
\* submenu rendered with or without aria-expanded and hidden; drawer closed,
\* body scrolling, dropdown closed.
HeaderInit ==
  /\ present = {}
  /\ hasSelect = [n \in Instances |-> FALSE]
  /\ rowKind = [n \in Instances |-> Stacked]
  /\ value = [n \in Instances |-> ""]
  /\ display = [n \in Instances |-> Shown]
  /\ listeners = [n \in Instances |-> <<>>]
  /\ loaded = FALSE
  /\ inserts = 0
  /\ elements \in Elements
  /\ \E aria \in IF elements.subToggle THEN {Null, "true", "false"} ELSE {Null},
        hidden \in IF elements.subList THEN BOOLEAN ELSE {FALSE} :
       header = HeaderStart(aria, hidden)
  /\ headerListeners = {}
  /\ headerLoaded = FALSE

\* The DOMContentLoaded listener of header.js registers the click listeners.
HeaderDOMContentLoaded ==
  /\ ~headerLoaded
  /\ headerLoaded' = TRUE
  /\ headerListeners' = registered(elements)
  /\ UNCHANGED <<elements, header>>
  /\ UNCHANGED offerVars

\* The user clicks an element of the page.
Click(target) ==
  /\ headerLoaded
  /\ exists(elements, target)
  /\ header' = dispatchClick(elements, headerListeners, target, header)
  /\ UNCHANGED <<elements, headerListeners, headerLoaded>>
  /\ UNCHANGED offerVars

UserClick == \E target \in Targets : Click(target)

HeaderNext == HeaderDOMContentLoaded \/ UserClick

HeaderSpec == HeaderInit /\ [][HeaderNext]_vars

\* ------------------------------------------------------------ properties
Hidden == [f \in FieldSet |-> "none"]
AllShown == [n \in Instances |-> Shown]
AllHidden == [n \in Instances |-> Hidden]

\* the instances attached to the page that own a select
WithSelect == {i \in Instances : i \in present /\ hasSelect[i]}

\* the row of field f is found in instance i itself by the row lookup
OwnRow(i, f) == locateOfferField(Dom, i, f) = i

\* the fixed set of visible fields of each mode
RuleTable(mode) ==
  CASE mode = "lesson" -> {"hours", "students", "instructors"}
    [] mode = "course" -> {"classes", "level"}
    [] mode = "experience" -> {"level"}
    [] mode = "rental" -> {}

\* the display state that set asks for
TableDisplay(mode, f) == IF f \in RuleTable(mode) THEN "" ELSE "none"

\* the step is a change event on the select of instance i
Changed(i) == i \in present /\ value'[i] # value[i]

\* the step is the page load
Loaded == ~loaded /\ loaded'

\* the step is the insertion of a new instance N
Inserted == "N" \notin present /\ "N" \in present'

\* C1: after a change of the select of any instance to one of the four modes,
\* every field whose row is in the instance is shown exactly when the mode's set
\* holds it.
C1_ModeTable ==
  [][\A i \in Instances :
       (Changed(i) /\ value'[i] \in Modes) =>
         \A f \in FieldSet :
           OwnRow(i, f) => display'[i][f] = TableDisplay(value'[i], f)]_vars

\* C2: after a change of the select to a value that is no recognized mode, every
\* field whose row is in the instance is visible.
C2_UnrecognizedShowsAll ==
  [][\A i \in Instances :
       (Changed(i) /\ toLowerCase(value'[i]) \notin Modes) =>
         \A f \in FieldSet : OwnRow(i, f) => display'[i][f] = ""]_vars

\* C3: a change of the select of instance a never changes the display state of a
\* row of another instance b (an instance with a select of its own).
C3_Isolation ==
  [][\A a \in Instances :
       Changed(a) => \A b \in WithSelect \ {a} : display'[b] = display[b]]_vars

\* C4: right after formset:added for an inserted instance whose select holds
\* "course", exactly classes and level are visible in it.
C4_InsertedCourse ==
  [][(Inserted /\ value'["N"] = "course") =>
       \A f \in FieldSet :
         rowKind'["N"][f] # "none" =>
           display'["N"][f] = TableDisplay("course", f)]_vars

\* the listeners that page load registers on the selects of the server-rendered
\* instances
LoadListeners ==
  LET dom == [Dom EXCEPT !.present = {"G", "I1", "I2"}]
      st0 == [listeners |-> [n \in Instances |-> <<>>], display |-> AllShown]
      st1 == initOfferTypeFields(dom, Document, st0)
  IN initOfferTypeToggles(dom, Document, st1).listeners

\* C5: after any sequence of insertions the listeners on the select of every
\* instance that was there at page load are those registered at page load.
C5_NoRescan ==
  loaded => \A i \in {"I1", "I2"} : listeners[i] = LoadListeners[i]

\* an insertion has run: it registered the three listeners of the nested NJ and
\* left the listeners of I1 and I2 as page load registered them
C5_Witness ==
  /\ inserts = 1
  /\ "NJ" \in present
  /\ Len(listeners["NJ"]) = 3
  /\ Len(listeners["I1"]) = 3
  /\ Len(listeners["I2"]) = 2

\* C6: when the DOMContentLoaded handlers have returned, every instance with a
\* select has both of its listeners registered and its rows already in the state
\* its change listeners give for the current value (the table's state for a
\* recognized mode).
C6_InitialEvaluation ==
  [][Loaded =>
       \A i \in WithSelect :
         /\ \E k \in 1..Len(listeners'[i]) :
              listeners'[i][k] = Listener("toggleOfferFields", i, i)
         /\ \E k \in 1..Len(listeners'[i]) :
              listeners'[i][k] = Listener("toggleFields", i, i)
         /\ \A again \in {dispatchChange(Dom, listeners'[i], display')} :
              \A f \in FieldSet :
                OwnRow(i, f) =>
                  /\ display'[i][f] = again[i][f]
                  /\ value[i] \in Modes =>
                       display'[i][f] = TableDisplay(value[i], f)]_vars

\* the page has loaded, nothing else has happened, and the rows of I1 and I2
\* follow their selects
C6_Witness ==
  /\ loaded /\ inserts = 0
  /\ hasSelect["I1"] /\ value["I1"] = "course" /\ rowKind["I1"] = Stacked
  /\ display["I1"]["hours"] = "none" /\ display["I1"]["classes"] = ""
  /\ hasSelect["I2"] /\ value["I2"] = "lesson"
  /\ display["I2"]["hours"] = "" /\ display["I2"]["classes"] = "none"

\* C7: an instance without a select has no listener and its rows keep the
\* display state they were rendered with.
C7_Inert ==
  \A i \in Instances :
    (i \in present /\ ~hasSelect[i]) =>
      listeners[i] = <<>> /\ display[i] = Shown

\* C8: one evaluation for an instance changes the display state of no row but
\* the rows its lookup locates, and these are rows inside the instance.
C8_Frame ==
  \A i \in WithSelect :
    \A dA \in {toggleOfferFields(Dom, i, i, display)},
       dB \in {toggleFields(Dom, i, i, display)} :
      \A j \in Instances, f \in FieldSet :
        /\ dA[j][f] # display[j][f] =>
             j = locateOfferField(Dom, i, f) /\ (j = i \/ j \in Below[i])
        /\ dB[j][f] # display[j][f] =>
             j = locateField(Dom, i, f) /\ (j = i \/ j \in Below[i])

\* toggleFields has run for I1 and left the rows it does not locate alone
C8_Witness ==
  /\ loaded
  /\ hasSelect["I1"] /\ rowKind["I1"] = Mixed /\ value["I1"] = ""
  /\ display["I1"]["classes"] = "none"
  /\ display["I1"]["students"] = ""
  /\ toggleFields(Dom, "I1", "I1", display) = display
  /\ toggleOfferFields(Dom, "I1", "I1", display) # display

C10_Idempotent ==
  \A i \in WithSelect :
    \A onceA \in {toggleOfferFields(Dom, i, i, display)},
       onceB \in {toggleFields(Dom, i, i, display)},
       once \in {dispatchChange(Dom, listeners[i], display)} :
      /\ toggleOfferFields(Dom, i, i, onceA) = onceA
      /\ toggleFields(Dom, i, i, onceB) = onceB
      /\ dispatchChange(Dom, listeners[i], once) = once

\* an evaluation that changes rows has a second run that changes nothing
C10_Witness ==
  /\ loaded /\ "I1" \in WithSelect /\ value["I1"] = "rental"
  /\ toggleOfferFields(Dom, "I1", "I1", AllShown) # AllShown
  /\ display["I1"] = Hidden

\* C11: after a change of the select to a value that differs from a recognized
\* mode only in letter case, the rows of the instance are in the state the
\* lowercase mode leaves them in.
C11_CaseInsensitive ==
  [][\A i \in Instances :
       (Changed(i) /\ value'[i] # toLowerCase(value'[i])
          /\ toLowerCase(value'[i]) \in Modes) =>
         \A lower \in {dispatchChange(
                         [Dom' EXCEPT !.value[i] = toLowerCase(value'[i])],
                         listeners[i], display)} :
           \A f \in FieldSet :
             OwnRow(i, f) => display'[i][f] = lower[i][f]]_vars

\* the listeners of a select in the opposite order
Reverse(ls) == [k \in 1..Len(ls) |-> ls[Len(ls) + 1 - k]]

\* C12: for a recognized lowercase mode the two variants give every row they
\* both locate the same display state, and running the change listeners of the
\* select in the opposite order ends in the same display state.
C12_VariantsAgree ==
  \A i \in WithSelect :
    value[i] \in Modes =>
      \A dA \in {toggleOfferFields(Dom, i, i, display)},
         dB \in {toggleFields(Dom, i, i, display)} :
        /\ \A f \in FieldSet :
             \A j \in {locateField(Dom, i, f)} :
               j # Null =>
                 /\ locateOfferField(Dom, i, f) = j
                 /\ dA[j][f] = dB[j][f]
        /\ dispatchChange(Dom, Reverse(listeners[i]), display)
             = dispatchChange(Dom, listeners[i], display)

\* both variants have run for I1 with "experience": they agree on the rows both
\* locate, and the rows only the first variant locates are set too
C12_Witness ==
  /\ loaded
  /\ hasSelect["I1"] /\ rowKind["I1"] = Mixed /\ value["I1"] = "experience"
  /\ Len(listeners["I1"]) = 3
  /\ display["I1"]["classes"] = "none" /\ display["I1"]["level"] = ""
  /\ display["I1"]["students"] = "none"
  /\ locateField(Dom, "I1", "students") = Null
  /\ locateOfferField(Dom, "I1", "students") = "I1"

\* ------------------------------------------------------------ site header
\* C13: whatever combination of the optional header elements the page has, no
\* click listener of the header ever throws; in particular a click on the
\* overlay or on the close button is safe on a page without .mobile-drawer.
C13_NeverRaises == ~header.raised

\* C14: the drawer has is-open exactly when the body has no-scroll, before and
\* after every step; a click on the toggle (of a page that has the drawer)
\* leaves the drawer open, a click on the overlay or on the close button leaves
\* it closed.
C14_DrawerScrollLock ==
  [][/\ header.drawerOpen <=> header.noScroll
     /\ header'.drawerOpen <=> header'.noScroll
     /\ (Click("headerToggle") /\ elements.mobileDrawer) =>
          (header'.drawerOpen /\ header'.noScroll)
     /\ \A t \in {"overlay", "closeBtn"} :
          Click(t) => (~header'.drawerOpen /\ ~header'.noScroll)]_vars

\* the toggle has been clicked: the drawer is open and the body locked, on a
\* page whose overlay and close button can close it again
C14_Witness ==
  /\ headerLoaded
  /\ header.drawerOpen /\ header.noScroll
  /\ {"headerToggle", "overlay", "closeBtn"} \subseteq headerListeners

\* C15: in every state of a page with the dropdown item, its link and its
\* dropdown, a click on the nav link flips is-open of the dropdown exactly once
\* (the listener of document does not undo it), and a click on anything outside
\* the dropdown item leaves the dropdown closed.
C15_DropdownToggle ==
  (headerLoaded /\ elements.nav = "full") =>
    /\ \A h \in {dispatchClick(elements, headerListeners, "sportsLink",
                               header)} :
         h.dropdownOpen = ~header.dropdownOpen
    /\ \A t \in Targets :
         (exists(elements, t) /\ ~navContains(t)) =>
           ~dispatchClick(elements, headerListeners, t, header).dropdownOpen

\* the nav link has been clicked and the dropdown is open, while the listener
\* of document is registered
C15_Witness ==
  /\ headerLoaded
  /\ elements.nav = "full"
  /\ {"sportsLink", "document"} \subseteq headerListeners
  /\ header.dropdownOpen

\* C16: after a click on the sub-toggle, whatever the attributes were before,
\* the sub-list is hidden exactly when aria-expanded is not "true"; the click
\* flips aria-expanded to the other of "true" and "false"; two further clicks
\* give the state the first one reached.
C16_SubmenuToggle ==
  [][(Click("subToggle") /\ "subToggle" \in headerListeners) =>
       /\ header'.subListHidden <=> (header'.ariaExpanded # "true")
       /\ header'.ariaExpanded \in {"true", "false"}
       /\ header'.ariaExpanded # header.ariaExpanded
       /\ (header.ariaExpanded = "true") <=> (header'.ariaExpanded = "false")
       /\ \A h1 \in {dispatchClick(elements, headerListeners, "subToggle",
                                   header')} :
            /\ h1 # header'
            /\ dispatchClick(elements, headerListeners, "subToggle", h1)
                 = header']_vars

\* the submenu is expanded and its list shown, with the listener registered
C16_Witness ==
  /\ headerLoaded
  /\ "subToggle" \in headerListeners
  /\ header.ariaExpanded = "true"
  /\ ~header.subListHidden

====
